---- MODULE Spec2Model ----
(***************************************************************************)
(* A model of the generation client (services/geminiService) and of the    *)
(* video view that drives its long-running operation poller.               *)
(*                                                                         *)
(* Strings are modelled as sequences of chunks (<<"data:", "image/png",    *)
(* ";base64,", "Zm9v">> is the string data:image/png;base64,Zm9v), so that *)
(* template literals are concatenations and the data-URL regex is a real   *)
(* match on the text.  The empty string is <<>>; undefined/null is Null.   *)
(* An optional object is a sequence of length 0 (absent) or 1 (present).   *)
(***************************************************************************)
EXTENDS Naturals, Integers, Sequences, FiniteSets, TLC

\* ------------------------------------------------------------------ bounds

\* The largest number of "incomplete" status reports the service gives
\* before it reports the operation complete.
MaxN == 3

\* ----------------------------------------------------------------- strings

Null == <<"<undefined>">>

Falsy(s) == s = Null \/ s = <<>>

KeyGood == <<"key-authorized">>
KeyBad == <<"key-unauthorized">>

Uri == <<"https://svc/video", "?alt=media">>

PromptCube == <<"a red cube">>

Watermark == <<". ", "<watermark instruction>">>

\* String.prototype.trim on a chunk string: leading and trailing blanks go.
RECURSIVE TrimLeft(_)
TrimLeft(s) == IF s # <<>> /\ Head(s) = " " THEN TrimLeft(Tail(s)) ELSE s

RECURSIVE TrimRight(_)
TrimRight(s) ==
    IF s # <<>> /\ s[Len(s)] = " " THEN TrimRight(SubSeq(s, 1, Len(s) - 1)) ELSE s

Trim(s) == TrimRight(TrimLeft(s))

\* A File of the seed-image picker: its MIME type (empty when the browser
\* does not know it) and its content in base64 (empty for an empty file).
FilePng == [type |-> <<"image/png">>, b64 |-> <<"Zm9v">>]
FileUntyped == [type |-> <<>>, b64 |-> <<"Zm9v">>]
FileEmpty == [type |-> <<"image/png">>, b64 |-> <<>>]
Files == {FilePng, FileUntyped, FileEmpty}

\* FileReader.readAsDataURL
ReadAsDataURL(file) ==
    IF file.b64 = <<>> THEN <<"data:">>
    ELSE <<"data:">>
         \o (IF file.type = <<>> THEN <<"application/octet-stream">> ELSE file.type)
         \o <<";base64,">> \o file.b64

HasComma(chunk) == chunk \in {";base64,", ","}

\* s.split(',')[1]: the text between the first and the second comma; Null
\* (undefined) when s holds no comma.
RECURSIVE UpToComma(_)
UpToComma(s) ==
    IF s = <<>> \/ HasComma(Head(s)) THEN <<>> ELSE <<Head(s)>> \o UpToComma(Tail(s))

RECURSIVE SplitComma1(_)
SplitComma1(s) ==
    IF s = <<>> THEN Null
    ELSE IF HasComma(Head(s)) THEN UpToComma(Tail(s))
    ELSE SplitComma1(Tail(s))

\* ---------------------------------------------------- the video operation

VEO_MODELS ==
    [m \in {"veo2", "veo3", "veo3 fast"} |->
        CASE m = "veo2" -> <<"veo-2.0-generate-001">>
          [] m = "veo3" -> <<"veo-3.0-generate-001">>
          [] m = "veo3 fast" -> <<"veo-3.0-fast-generate-001">>]

\* The shapes of operation.response the SDK's types allow.
RespWith(uri) == << [generatedVideos |-> << << [video |-> << [uri |-> uri] >>] >> >>] >>
RespNoVideo == << [generatedVideos |-> << << [video |-> <<>>] >> >>] >>
RespEmptyList == << [generatedVideos |-> << <<>> >>] >>
RespNoList == << [generatedVideos |-> <<>>] >>
RespAbsent == <<>>

CompletedResponses ==
    {RespWith(Uri), RespWith(Null), RespWith(<<>>), RespNoVideo, RespEmptyList,
     RespNoList, RespAbsent}

OpIncomplete == [done |-> FALSE, response |-> RespAbsent]
OpComplete(resp) == [done |-> TRUE, response |-> resp]

\* operation.response?.generatedVideos?.[0]?.video?.uri
DownloadLink(op) ==
    IF op.response = <<>> THEN Null
    ELSE LET gv == op.response[1].generatedVideos IN
         IF gv = <<>> THEN Null
         ELSE IF gv[1] = <<>> THEN Null
         ELSE LET video == gv[1][1].video IN
              IF video = <<>> THEN Null ELSE video[1].uri

ObjectUrl == <<"blob:", "video">>

\* The counters of issued calls stop counting at Cap, which no run of a job
\* that completes reaches; a job that never completes is polled on at Cap.
Cap == MaxN + 2
Inc(n) == IF n < Cap THEN n + 1 ELSE n

\* ------------------------------------------------------------ video: state

VARIABLES
    veo,          \* the invocation of generateVideoWithVeo: the await it is
                  \* suspended at (pc), its locals, and what it has issued
    svcCompletes, \* environment: the service eventually reports completion
    svcRemaining, \* environment: "incomplete" status reports still to come
    svcN,         \* environment: the N of the current job (-1: none yet)
    \* VideoGenerator component state
    vwApiKey, vwPrompt, vwImageFile, vwAddWatermark, vwSelectedModel,
    vwIsLoading, vwError, vwResultUri,
    hpc,          \* handleSubmit: "idle", "fileToBase64" or "generate"
    hs,           \* what the running handleSubmit closed over
    detached      \* the running handleSubmit belongs to a VideoGenerator
                  \* that has since been unmounted

svcVars == <<svcCompletes, svcRemaining, svcN>>
viewVars == <<vwApiKey, vwPrompt, vwImageFile, vwAddWatermark, vwSelectedModel,
              vwIsLoading, vwError, vwResultUri, hpc, hs, detached>>
videoVars == <<veo, svcVars, viewVars>>

\* ----------------------------------------------------------- client: state

VARIABLES
    storedKey,    \* localStorage['gemini-api-key'] (Null: no item)
    envKey,       \* process.env.API_KEY (Null: not defined)
    call          \* the invocation of validateApiKey, generateImage or editImage

clientVars == <<storedKey, envKey, call>>

\* ------------------------------------------------------------ views: state

VARIABLES
    img,          \* ImageGenerator component state, its apiKey prop, and the
                  \* await its running handler is suspended at (pc)
    readers,      \* the files whose FileReader (handleImageUpload) is reading
    lcw,          \* LiveChatWidget component state, its apiKey prop, and the
                  \* await its running handleSubmit is suspended at (pc)
    cc,           \* ChatComponent (the Chat view) likewise
    setup         \* ApiKeySetup component state, its debounce timer and the
                  \* validations it has under way

imageVars == <<img, readers>>
chatVars == <<lcw, cc>>
setupVars == <<setup>>

\* -------------------------------------------------------------- App: state

VARIABLES
    appApiKey,        \* App state apiKey (Null: the setup screen shows)
    previousApiKey,   \* App state previousApiKey
    mode,             \* App state mode: the generator on screen
    isLiveChatOpen,   \* App state isLiveChatOpen
    storedAccent,     \* localStorage['app-accent-color']
    storedBackground  \* localStorage['app-background-image']

appVars == <<appApiKey, previousApiKey, mode, isLiveChatOpen, storedAccent,
             storedBackground>>

vars == <<videoVars, clientVars, imageVars, chatVars, setupVars, appVars>>

\* What the actions of one part leave alone.
otherThanVideo == <<clientVars, imageVars, chatVars, setupVars, appVars>>
otherThanClient == <<videoVars, imageVars, chatVars, setupVars, appVars>>
otherThanImage == <<videoVars, storedKey, envKey, chatVars, setupVars, appVars>>
otherThanChat == <<videoVars, clientVars, imageVars, setupVars, appVars>>
otherThanSetup == <<videoVars, clientVars, imageVars, chatVars, appVars>>

CallIdle ==
    [fn |-> "none", pc |-> "idle", args |-> <<>>, apiKey |-> Null, request |-> <<>>,
     nRemote |-> 0, remote |-> "none", response |-> <<>>, result |-> Null,
     isValid |-> <<>>, error |-> "none"]

\* The client calls are not in use.
ClientQuiet == storedKey = Null /\ envKey = Null /\ call = CallIdle

\* ImageGenerator as mounted (part_001 lines 17-25), with the apiKey prop it was
\* given and the ratio and watermark choices of the form.
ImageGeneratorState(apiKeyProp, aspectRatio, addWatermark) ==
    [apiKey |-> apiKeyProp, prompt |-> <<>>, editPrompt |-> <<>>,
     aspectRatio |-> aspectRatio, addWatermark |-> addWatermark,
     isLoading |-> FALSE, error |-> "none", imageUrl |-> Null,
     originalImageUrlForEdit |-> Null, pc |-> "idle"]

\* The image view is not in use.
ImageQuiet == img = ImageGeneratorState(Null, <<"1:1">>, FALSE) /\ readers = {}

Greeting == [role |-> "model", text |-> <<"Hi there! How can I help you with the AI Media Generator today?">>]

\* LiveChatWidget as mounted, its initialisation effect run (LiveChatWidget.tsx
\* lines 18-44): chat is whether a chat session exists, chunks the chunk.text
\* values that the stream of the last send has yielded.
LiveChatWidgetState(apiKeyProp) ==
    [apiKey |-> apiKeyProp,
     messages |-> IF Falsy(apiKeyProp) THEN <<>> ELSE <<Greeting>>,
     input |-> <<>>, isLoading |-> FALSE,
     error |-> IF Falsy(apiKeyProp) THEN "ApiKeyNotFound" ELSE "none",
     chat |-> ~Falsy(apiKeyProp),
     pc |-> "idle", currentInput |-> <<>>, nChunks |-> 0, chunks |-> <<>>]

ChatGreeting ==
    [role |-> "model",
     text |-> <<"Hello! How can I help you brainstorm some creative media ideas today?">>]

\* ChatComponent as mounted, its initialisation effect run (LiveChatWidget.tsx
\* lines 200-225).
ChatComponentState(apiKeyProp) ==
    [apiKey |-> apiKeyProp,
     messages |-> IF Falsy(apiKeyProp) THEN <<>> ELSE <<ChatGreeting>>,
     input |-> <<>>, isLoading |-> FALSE,
     error |-> IF Falsy(apiKeyProp) THEN "ApiKeyNotFound" ELSE "none",
     chat |-> ~Falsy(apiKeyProp),
     pc |-> "idle", currentInput |-> <<>>, nChunks |-> 0, chunks |-> <<>>]

\* The chat views are not in use.
ChatQuiet == lcw = LiveChatWidgetState(Null) /\ cc = ChatComponentState(Null)

\* ApiKeySetup as mounted, its validation effect run once (fileUtils.ts lines
\* 47-83): timer holds the input the pending debounce timer closed over,
\* inFlight the keys whose validateApiKey is under way, validated the keys for
\* which validateApiKey has returned true.
ApiKeySetupState(initialValue) ==
    [keyInput |-> initialValue,
     validationStatus |-> IF Falsy(Trim(initialValue)) THEN "idle" ELSE "validating",
     timer |-> IF Falsy(Trim(initialValue)) THEN <<>> ELSE <<initialValue>>,
     inFlight |-> {}, validated |-> {}]

\* The setup screen is not in use.
SetupQuiet == setup = ApiKeySetupState(<<>>)

DEFAULT_BACKGROUND_URL == <<"https://images.unsplash.com/photo-1596541223130-5d31a73fb12f">>

\* App with a key, on the generator m, nothing else open (part_003 lines 193-200).
AppQuiet(m) ==
    /\ appApiKey = KeyGood /\ previousApiKey = Null
    /\ mode = m /\ isLiveChatOpen = FALSE
    /\ storedAccent = "indigo" /\ storedBackground = DEFAULT_BACKGROUND_URL

VeoIdle ==
    [pc |-> "idle", args |-> <<>>, requestPayload |-> <<>>, operation |-> <<>>,
     result |-> Null, error |-> "none", nSubmit |-> 0, nSleep |-> 0, nStatus |-> 0,
     nDownload |-> 0, nObjectUrls |-> 0, fetchedUrl |-> Null, fetchOk |-> <<>>]

Prompts == {<<>>, PromptCube}
ApiKeys == {KeyGood, KeyBad}
VideoAspectRatio == <<"16:9">>
VideoResolution == <<"1080p">>

\* --------------------------------------------- generateVideoWithVeo, by await

\* Lines 94-118: the payload is built and generateVideos is issued.
GenerateVideoWithVeo(apiKey, prompt, model, aspectRatio, resolution, base64Image, mimeType) ==
    [VeoIdle EXCEPT
        !.pc = "submit",
        !.args = [apiKey |-> apiKey, prompt |-> prompt, model |-> model,
                  aspectRatio |-> aspectRatio, resolution |-> resolution,
                  base64Image |-> base64Image, mimeType |-> mimeType],
        !.requestPayload =
            [model |-> model, prompt |-> prompt,
             image |-> IF ~Falsy(base64Image) /\ ~Falsy(mimeType)
                       THEN << [imageBytes |-> base64Image, mimeType |-> mimeType] >>
                       ELSE <<>>,
             config |-> [numberOfVideos |-> 1]],
        !.nSubmit = 1]

Throw(v, kind) == [v EXCEPT !.pc = "failed", !.error = kind]

\* AfterLoop without the check of line 127.
AfterLoopUnchecked(v) ==
    [v EXCEPT !.pc = "fetch", !.nDownload = Inc(@),
              !.fetchedUrl = DownloadLink(v.operation[1]) \o <<"&key=">> \o v.args.apiKey]

\* Lines 125-131: the download link is read; the download fetch is issued.
AfterLoop(v) ==
    LET downloadLink == DownloadLink(v.operation[1]) IN
    IF Falsy(downloadLink) THEN Throw(v, "GenerationFailed")
    ELSE [v EXCEPT !.pc = "fetch", !.nDownload = Inc(@),
                   !.fetchedUrl = downloadLink \o <<"&key=">> \o v.args.apiKey]

\* The test of a loop that never looks at the completion flag.
LoopAgainAlways(op) == TRUE

\* Line 120: the test of the while loop.
LoopAgain(op) == ~op.done

\* LoopTest of a loop that polls without suspending.
LoopTestBusy(v) ==
    IF LoopAgain(v.operation[1])
    THEN [v EXCEPT !.pc = "poll", !.nStatus = Inc(@)]
    ELSE AfterLoop(v)

\* Lines 120-121: the loop test, and the suspension it leads to.
LoopTest(v) ==
    IF LoopAgain(v.operation[1])
    THEN [v EXCEPT !.pc = "sleep", !.nSleep = Inc(@)]
    ELSE AfterLoop(v)

\* Line 122: the timer fired; the status fetch is issued.
IssueStatusFetch(v) == [v EXCEPT !.pc = "poll", !.nStatus = Inc(@)]

\* AfterFetch without the check of line 132.
AfterFetchUnchecked(v, ok) == [v EXCEPT !.fetchOk = <<ok>>, !.pc = "blob"]

\* AfterFetch that goes back to polling when the download failed.
AfterFetchRetry(v, ok) ==
    IF ~ok THEN [v EXCEPT !.fetchOk = <<ok>>, !.pc = "sleep", !.nSleep = Inc(@)]
    ELSE [v EXCEPT !.fetchOk = <<ok>>, !.pc = "blob"]

\* Lines 132-136: the download fetch resolved.
AfterFetch(v, ok) ==
    IF ~ok THEN Throw([v EXCEPT !.fetchOk = <<ok>>], "DownloadFailed")
    ELSE [v EXCEPT !.fetchOk = <<ok>>, !.pc = "blob"]

\* Line 137
AfterBlob(v) ==
    [v EXCEPT !.pc = "returned", !.result = ObjectUrl, !.nObjectUrls = Inc(@)]

VeoSettled(v) == v.pc \in {"returned", "failed"}

\* ------------------------------------------------- VideoGenerator.handleSubmit

\* ViewAfter of a handler that resets the loading flag in the try block only.
ViewAfterNoFinally(v) ==
    IF VeoSettled(v)
    THEN /\ hpc' = "idle"
         /\ detached' = FALSE
         /\ vwIsLoading' = (v.pc = "failed")
         /\ vwResultUri' = IF v.pc = "returned" THEN v.result ELSE vwResultUri
         /\ vwError' = IF v.pc = "failed" THEN v.error ELSE vwError
    ELSE UNCHANGED <<hpc, vwIsLoading, vwResultUri, vwError, detached>>

\* Lines 363-368: the await on generateVideoWithVeo resumes (in the same
\* microtask checkpoint in which the promise settles).  The state setters of
\* a component that has been unmounted change nothing.
ViewAfter(v) ==
    IF VeoSettled(v)
    THEN /\ hpc' = "idle"
         /\ detached' = FALSE
         /\ IF detached
            THEN UNCHANGED <<vwIsLoading, vwResultUri, vwError>>
            ELSE /\ vwIsLoading' = FALSE
                 /\ vwResultUri' = IF v.pc = "returned" THEN v.result
                                   ELSE vwResultUri
                 /\ vwError' = IF v.pc = "failed" THEN v.error ELSE vwError
    ELSE UNCHANGED <<hpc, vwIsLoading, vwResultUri, vwError, detached>>

ViewInputs == <<vwApiKey, vwPrompt, vwImageFile, vwAddWatermark, vwSelectedModel>>

\* The submit button is enabled (lines 492-494).
SubmitEnabled == ~(vwIsLoading \/ Falsy(vwPrompt) \/ Falsy(vwApiKey))

FinalPrompt == IF vwAddWatermark THEN Trim(vwPrompt) \o Watermark ELSE vwPrompt

HandleSubmit ==
    /\ UNCHANGED otherThanVideo
    /\ SubmitEnabled
    /\ UNCHANGED <<ViewInputs, svcVars, detached>>
    /\ IF Falsy(vwPrompt) \/ Falsy(vwApiKey)
       THEN /\ vwError' = "InputMissing"
            /\ UNCHANGED <<veo, vwIsLoading, vwResultUri, hpc, hs>>
       ELSE /\ vwIsLoading' = TRUE
            /\ vwError' = "none"
            /\ vwResultUri' = Null
            /\ hs' = [finalPrompt |-> FinalPrompt, imageFile |-> vwImageFile,
                      modelId |-> VEO_MODELS[vwSelectedModel], apiKey |-> vwApiKey]
            /\ IF vwImageFile # <<>>
               THEN /\ hpc' = "fileToBase64"
                    /\ veo' = VeoIdle
               ELSE /\ hpc' = "generate"
                    /\ veo' = GenerateVideoWithVeo(vwApiKey, FinalPrompt,
                                  VEO_MODELS[vwSelectedModel], VideoAspectRatio,
                                  VideoResolution, Null, Null)

\* fileToBase64 settles (fileUtils.ts 1-17), and handleSubmit goes on (359-362).
FileToBase64Settles ==
    /\ UNCHANGED otherThanVideo
    /\ hpc = "fileToBase64"
    /\ UNCHANGED <<ViewInputs, svcVars, hs, vwResultUri>>
    /\ \E readerError \in BOOLEAN :
         LET base64 == SplitComma1(ReadAsDataURL(hs.imageFile[1])) IN
         IF readerError \/ Falsy(base64)
         THEN /\ IF detached THEN UNCHANGED <<vwError, vwIsLoading>>
                 ELSE vwError' = "FileError" /\ vwIsLoading' = FALSE
              /\ hpc' = "idle"
              /\ detached' = FALSE
              /\ UNCHANGED veo
         ELSE /\ hpc' = "generate"
              /\ veo' = GenerateVideoWithVeo(hs.apiKey, hs.finalPrompt, hs.modelId,
                            VideoAspectRatio, VideoResolution, base64,
                            hs.imageFile[1].type)
              /\ UNCHANGED <<vwError, vwIsLoading, detached>>

\* ----------------------------------------------------- the remote service

Authorized(key) == key = KeyGood

\* ai.models.generateVideos settles.
GenerateVideosReturns ==
    /\ UNCHANGED otherThanVideo
    /\ veo.pc = "submit"
    /\ UNCHANGED <<ViewInputs, hs, svcCompletes>>
    /\ \/ /\ veo' = Throw(veo, "RemoteError")
          /\ UNCHANGED <<svcRemaining, svcN>>
       \/ /\ Authorized(veo.args.apiKey)
          /\ svcCompletes
          /\ \E n \in 0..MaxN :
               /\ svcRemaining' = n
               /\ svcN' = n
               /\ veo' = LoopTest([veo EXCEPT !.operation = <<OpIncomplete>>])
       \/ /\ Authorized(veo.args.apiKey)
          /\ svcCompletes
          /\ \E resp \in CompletedResponses :
               veo' = LoopTest([veo EXCEPT !.operation = <<OpComplete(resp)>>])
          /\ svcRemaining' = 0
          /\ svcN' = -1
       \/ /\ Authorized(veo.args.apiKey)
          /\ ~svcCompletes
          /\ svcRemaining' = -1
          /\ svcN' = -1
          /\ veo' = LoopTest([veo EXCEPT !.operation = <<OpIncomplete>>])
    /\ ViewAfter(veo')

\* The 10 s timer of line 121 fires.
TimerFires ==
    /\ UNCHANGED otherThanVideo
    /\ veo.pc = "sleep"
    /\ veo' = IssueStatusFetch(veo)
    /\ UNCHANGED <<svcVars, viewVars>>

\* ai.operations.getVideosOperation settles.
GetVideosOperationReturns ==
    /\ UNCHANGED otherThanVideo
    /\ veo.pc = "poll"
    /\ UNCHANGED <<ViewInputs, hs, svcCompletes, svcN>>
    /\ \/ /\ veo' = Throw(veo, "RemoteError")
          /\ UNCHANGED svcRemaining
       \/ /\ svcRemaining > 0
          /\ svcRemaining' = svcRemaining - 1
          /\ veo' = LoopTest([veo EXCEPT !.operation = <<OpIncomplete>>])
       \/ /\ svcRemaining = 0
          /\ UNCHANGED svcRemaining
          /\ \E resp \in CompletedResponses :
               veo' = LoopTest([veo EXCEPT !.operation = <<OpComplete(resp)>>])
       \/ /\ svcRemaining = -1
          /\ UNCHANGED svcRemaining
          /\ veo' = LoopTest([veo EXCEPT !.operation = <<OpIncomplete>>])
    /\ ViewAfter(veo')

\* The download fetch of line 131 settles.
FetchReturns ==
    /\ UNCHANGED otherThanVideo
    /\ veo.pc = "fetch"
    /\ UNCHANGED <<ViewInputs, hs, svcVars>>
    /\ \/ veo' = Throw(veo, "RemoteError")
       \/ \E ok \in BOOLEAN : veo' = AfterFetch(veo, ok)
    /\ ViewAfter(veo')

\* videoResponse.blob() settles.
BlobReturns ==
    /\ UNCHANGED otherThanVideo
    /\ veo.pc = "blob"
    /\ UNCHANGED <<ViewInputs, hs, svcVars>>
    /\ \/ veo' = Throw(veo, "RemoteError")
       \/ veo' = AfterBlob(veo)
    /\ ViewAfter(veo')

\* ------------------------------------------------------ the user's inputs

SetPrompt ==
    /\ UNCHANGED otherThanVideo
    /\ \E p \in Prompts : vwPrompt' = p
    /\ UNCHANGED <<veo, svcVars, vwApiKey, vwImageFile, vwAddWatermark,
                   vwSelectedModel, vwIsLoading, vwError, vwResultUri, hpc, hs,
                   detached>>

HandleFileChange ==
    /\ UNCHANGED otherThanVideo
    /\ \E file \in Files : vwImageFile' = <<file>>
    /\ vwResultUri' = Null
    /\ UNCHANGED <<veo, svcVars, vwApiKey, vwPrompt, vwAddWatermark,
                   vwSelectedModel, vwIsLoading, vwError, hpc, hs, detached>>

\* The "Remove image" button (line 475); it shows once the preview has loaded.
RemoveImage ==
    /\ UNCHANGED otherThanVideo
    /\ vwImageFile # <<>>
    /\ vwImageFile' = <<>>
    /\ UNCHANGED <<veo, svcVars, vwApiKey, vwPrompt, vwAddWatermark,
                   vwSelectedModel, vwIsLoading, vwError, vwResultUri, hpc, hs,
                   detached>>

VideoVarsInit ==
    /\ veo = VeoIdle
    /\ svcCompletes \in BOOLEAN
    /\ svcRemaining = 0
    /\ svcN = -1
    /\ vwApiKey \in ApiKeys
    /\ vwPrompt = <<"A majestic cinematic shot of a futuristic city at sunset">>
    /\ vwImageFile = <<>>
    /\ vwAddWatermark \in BOOLEAN
    /\ vwSelectedModel \in {"veo2", "veo3"}
    /\ vwIsLoading = FALSE
    /\ vwError = "none"
    /\ vwResultUri = Null
    /\ hpc = "idle"
    /\ hs = <<>>
    /\ detached = FALSE

VideoInit ==
    /\ VideoVarsInit /\ ClientQuiet
    /\ ImageQuiet /\ ChatQuiet /\ SetupQuiet /\ AppQuiet("VIDEO")

VeoStep ==
    \/ GenerateVideosReturns
    \/ TimerFires
    \/ GetVideosOperationReturns
    \/ FetchReturns
    \/ BlobReturns
    \/ FileToBase64Settles

VideoNext ==
    \/ HandleSubmit
    \/ VeoStep
    \/ SetPrompt
    \/ HandleFileChange
    \/ RemoveImage

SpecVideo == VideoInit /\ [][VideoNext]_vars

\* Every pending promise and timer settles.
FairSpecVideo == SpecVideo /\ WF_vars(VeoStep)

\* ----------------------------------------------------- the one-shot calls

\* The longest source artifact string handed to editImage, in chunks.
MaxUrlLen == 4

\* The most images in a response, and the most parts in a candidate.
MaxItems == 2

Chunks == {"data:", "image/png", ";base64,", "Zm9v", "\n"}
DataUrls == UNION {[1..n -> Chunks] : n \in 0..MaxUrlLen}

AspectRatios == {<<"1:1">>, <<"3:4">>, <<"4:3">>, <<"9:16">>, <<"16:9">>}

Payloads == {<<"Zm9v">>, <<"QmFy">>}

\* `${x}` in a template literal
Str(x) == IF x = Null THEN <<"undefined">> ELSE x

\* getApiKey without the test of line 7.
GetApiKeyUnchecked == << IF ~Falsy(storedKey) THEN storedKey ELSE envKey >>

\* getApiKey (lines 4-10): <<>> when it throws.
GetApiKey ==
    LET apiKey == IF ~Falsy(storedKey) THEN storedKey ELSE envKey IN
    IF Falsy(apiKey) THEN <<>> ELSE <<apiKey>>

Settled(c, result) == [c EXCEPT !.pc = "settled", !.result = result]
Failed(c, kind) == [c EXCEPT !.pc = "settled", !.error = kind]

\* validateApiKey, to its await (lines 16-21)
ValidateApiKey(apiKey) ==
    LET c == [CallIdle EXCEPT !.fn = "validateApiKey", !.args = [apiKey |-> apiKey]] IN
    IF Falsy(apiKey) THEN [c EXCEPT !.pc = "settled", !.isValid = <<FALSE>>]
    ELSE [c EXCEPT !.pc = "await", !.apiKey = apiKey, !.nRemote = 1,
                   !.request = [model |-> <<"gemini-2.5-flash">>,
                                contents |-> <<"test">>]]

\* ValidateAfter with a catch block that throws the error on.
ValidateAfterRethrow(c, outcome) ==
    IF outcome = "ok"
    THEN [c EXCEPT !.pc = "settled", !.remote = outcome, !.isValid = <<TRUE>>]
    ELSE Failed([c EXCEPT !.remote = outcome], "RemoteError")

\* validateApiKey, from its await (lines 21-26)
ValidateAfter(c, outcome) ==
    IF outcome = "ok"
    THEN [c EXCEPT !.pc = "settled", !.remote = outcome, !.isValid = <<TRUE>>]
    ELSE [c EXCEPT !.pc = "settled", !.remote = outcome, !.isValid = <<FALSE>>]

\* generateImage, to its await (lines 30-40)
GenerateImage(prompt, aspectRatio) ==
    LET c == [CallIdle EXCEPT !.fn = "generateImage",
                 !.args = [prompt |-> prompt, aspectRatio |-> aspectRatio]] IN
    IF GetApiKey = <<>> THEN Failed(c, "MissingCredential")
    ELSE [c EXCEPT !.pc = "await", !.apiKey = GetApiKey[1], !.nRemote = 1,
                   !.request = [model |-> <<"imagen-4.0-generate-001">>,
                                prompt |-> prompt,
                                config |-> [numberOfImages |-> 1,
                                            outputMimeType |-> <<"image/png">>,
                                            aspectRatio |-> aspectRatio]]]

\* GenerateImageAfter without the test of line 42.
GenerateImageAfterUnchecked(c, outcome, response) ==
    LET d == [c EXCEPT !.remote = outcome, !.response = <<response>>] IN
    IF outcome # "ok" THEN Failed([c EXCEPT !.remote = outcome], "RemoteError")
    ELSE IF response.generatedImages = <<>> \/ response.generatedImages[1] = <<>>
    THEN Failed(d, "TypeError")
    ELSE LET image == response.generatedImages[1][1].image IN
         IF image = <<>> THEN Failed(d, "TypeError")
         ELSE Settled(d, <<"data:", "image/png", ";base64,">> \o Str(image[1].imageBytes))

\* GenerateImageAfter that reads the last generated image, not the first.
GenerateImageAfterLast(c, outcome, response) ==
    LET d == [c EXCEPT !.remote = outcome, !.response = <<response>>] IN
    IF outcome # "ok" THEN Failed([c EXCEPT !.remote = outcome], "RemoteError")
    ELSE IF response.generatedImages # <<>> /\ Len(response.generatedImages[1]) > 0
    THEN LET images == response.generatedImages[1]
             image == images[Len(images)].image IN
         IF image = <<>> THEN Failed(d, "TypeError")
         ELSE Settled(d, <<"data:", "image/png", ";base64,">> \o Str(image[1].imageBytes))
    ELSE Failed(d, "GenerationFailed")

\* GenerateImageAfter that issues the call again when it failed.
GenerateImageAfterRetry(c, outcome, response) ==
    LET d == [c EXCEPT !.remote = outcome, !.response = <<response>>] IN
    IF outcome # "ok" THEN [c EXCEPT !.remote = outcome, !.nRemote = 2]
    ELSE IF response.generatedImages # <<>> /\ Len(response.generatedImages[1]) > 0
    THEN LET image == response.generatedImages[1][1].image IN
         IF image = <<>> THEN Failed(d, "TypeError")
         ELSE Settled(d, <<"data:", "image/png", ";base64,">> \o Str(image[1].imageBytes))
    ELSE Failed(d, "GenerationFailed")

\* generateImage, from its await (lines 42-47)
GenerateImageAfter(c, outcome, response) ==
    LET d == [c EXCEPT !.remote = outcome, !.response = <<response>>] IN
    IF outcome # "ok" THEN Failed([c EXCEPT !.remote = outcome], "RemoteError")
    ELSE IF response.generatedImages # <<>> /\ Len(response.generatedImages[1]) > 0
    THEN LET image == response.generatedImages[1][1].image IN
         IF image = <<>> THEN Failed(d, "TypeError")
         ELSE Settled(d, <<"data:", "image/png", ";base64,">> \o Str(image[1].imageBytes))
    ELSE Failed(d, "GenerationFailed")

\* The index of the ";base64," that /^data:(.+);base64,(.+)$/ matches in s
\* (the first group is greedy), 0 when the string does not match.
Base64Marker(s) ==
    LET K == {k \in 3..(Len(s) - 1) : s[k] = ";base64,"} IN
    IF /\ Len(s) >= 4
       /\ s[1] = "data:"
       /\ \A i \in 2..Len(s) : s[i] # "\n"
       /\ K # {}
    THEN CHOOSE k \in K : \A j \in K : j <= k
    ELSE 0

\* parseDataUrl (lines 50-56): <<>> when it throws.
ParseDataUrl(dataUrl) ==
    LET k == Base64Marker(dataUrl) IN
    IF k = 0 THEN <<>>
    ELSE << [mimeType |-> SubSeq(dataUrl, 2, k - 1),
             data |-> SubSeq(dataUrl, k + 1, Len(dataUrl))] >>

\* editImage that issues the call whatever the source string.
EditImageUnparsed(prompt, imageDataUrl) ==
    LET c == [CallIdle EXCEPT !.fn = "editImage",
                 !.args = [prompt |-> prompt, imageDataUrl |-> imageDataUrl]] IN
    IF GetApiKey = <<>> THEN Failed(c, "MissingCredential")
    ELSE [c EXCEPT !.pc = "await", !.apiKey = GetApiKey[1], !.nRemote = 1,
                   !.request = [model |-> <<"gemini-2.5-flash-image-preview">>,
                                parts |-> << [inlineData |-> ParseDataUrl(imageDataUrl),
                                              text |-> Null],
                                             [inlineData |-> <<>>, text |-> prompt] >>]]

\* editImage, to its await (lines 58-79)
EditImage(prompt, imageDataUrl) ==
    LET c == [CallIdle EXCEPT !.fn = "editImage",
                 !.args = [prompt |-> prompt, imageDataUrl |-> imageDataUrl]]
        parsed == ParseDataUrl(imageDataUrl) IN
    IF GetApiKey = <<>> THEN Failed(c, "MissingCredential")
    ELSE IF parsed = <<>> THEN Failed(c, "InvalidInput")
    ELSE [c EXCEPT !.pc = "await", !.apiKey = GetApiKey[1], !.nRemote = 1,
                   !.request = [model |-> <<"gemini-2.5-flash-image-preview">>,
                                parts |-> << [inlineData |-> parsed, text |-> Null],
                                             [inlineData |-> <<>>, text |-> prompt] >>]]

\* The first part of parts that carries inlineData: <<>> when none does.
RECURSIVE FirstInline(_)
FirstInline(parts) ==
    IF parts = <<>> THEN <<>>
    ELSE IF Head(parts).inlineData # <<>> THEN Head(parts).inlineData
    ELSE FirstInline(Tail(parts))

\* response.candidates[0].content.parts (line 81): <<>> when reading it throws.
CandidateParts(response) ==
    IF response.candidates = <<>> THEN <<>>
    ELSE IF response.candidates[1] = <<>> THEN <<>>
    ELSE IF response.candidates[1][1].content = <<>> THEN <<>>
    ELSE response.candidates[1][1].content[1].parts

\* editImage, from its await (lines 81-89)
EditImageAfter(c, outcome, response) ==
    LET d == [c EXCEPT !.remote = outcome, !.response = <<response>>] IN
    IF outcome # "ok" THEN Failed([c EXCEPT !.remote = outcome], "RemoteError")
    ELSE IF CandidateParts(response) = <<>> THEN Failed(d, "TypeError")
    ELSE LET part == FirstInline(CandidateParts(response)[1]) IN
         IF part # <<>>
         THEN Settled(d, <<"data:">> \o Str(part[1].mimeType) \o <<";base64,">>
                         \o Str(part[1].data))
         ELSE Failed(d, "GenerationFailed")

\* ------------------------------------------------ responses of the service

ImageEntries ==
    {[image |-> <<>>]}
    \cup {[image |-> << [imageBytes |-> b] >>] : b \in Payloads \cup {Null, <<>>}}

ImageResponses ==
    {[generatedImages |-> <<>>]}
    \cup {[generatedImages |-> <<l>>] :
            l \in UNION {[1..n -> ImageEntries] : n \in 0..MaxItems}}

TextPart == [inlineData |-> <<>>, text |-> <<"done">>]
InlinePart(mimeType, data) ==
    [inlineData |-> << [mimeType |-> mimeType, data |-> data] >>, text |-> Null]

Parts ==
    {TextPart, InlinePart(<<"image/png">>, <<"Zm9v">>),
     InlinePart(<<"image/jpeg">>, <<"QmFy">>)}

Candidates ==
    {[content |-> <<>>], [content |-> << [parts |-> <<>>] >>]}
    \cup {[content |-> << [parts |-> <<l>>] >>] :
            l \in UNION {[1..n -> Parts] : n \in 0..MaxItems}}

EditResponses ==
    {[candidates |-> <<>>], [candidates |-> << <<>> >>]}
    \cup {[candidates |-> << <<cand>> >>] : cand \in Candidates}

\* What a remote call made with apiKey can come to.
Outcomes(apiKey) ==
    IF Authorized(apiKey) THEN {"ok", "network"} ELSE {"unauthorized", "network"}

\* ------------------------------------------------------- client: actions

\* No invocation is under way: the client runs one call at a time here.
CallFree == call.pc = "idle"

\* The caller has taken the outcome of the settled call.
CallDone ==
    /\ call.pc = "settled"
    /\ call' = CallIdle
    /\ UNCHANGED <<storedKey, envKey, otherThanClient>>

CallValidateApiKey ==
    /\ CallFree
    /\ \E apiKey \in {<<>>, KeyGood, KeyBad} : call' = ValidateApiKey(apiKey)
    /\ UNCHANGED <<storedKey, envKey, otherThanClient>>

CallGenerateImage ==
    /\ CallFree
    /\ \E prompt \in Prompts, aspectRatio \in AspectRatios :
         call' = GenerateImage(prompt, aspectRatio)
    /\ UNCHANGED <<storedKey, envKey, otherThanClient>>

CallEditImage ==
    /\ CallFree
    /\ \E prompt \in Prompts, imageDataUrl \in DataUrls :
         call' = EditImage(prompt, imageDataUrl)
    /\ UNCHANGED <<storedKey, envKey, otherThanClient>>

\* ai.models.generateContent of validateApiKey settles.
ValidateSettles ==
    /\ call.pc = "await" /\ call.fn = "validateApiKey"
    /\ \E outcome \in Outcomes(call.apiKey) : call' = ValidateAfter(call, outcome)
    /\ UNCHANGED <<storedKey, envKey, otherThanClient>>

\* ai.models.generateImages settles.
GenerateImagesSettles ==
    /\ call.pc = "await" /\ call.fn = "generateImage"
    /\ \E outcome \in Outcomes(call.apiKey), response \in ImageResponses :
         call' = GenerateImageAfter(call, outcome, response)
    /\ UNCHANGED <<storedKey, envKey, otherThanClient>>

\* ai.models.generateContent of editImage settles.
GenerateContentSettles ==
    /\ call.pc = "await" /\ call.fn = "editImage"
    /\ \E outcome \in Outcomes(call.apiKey), response \in EditResponses :
         call' = EditImageAfter(call, outcome, response)
    /\ UNCHANGED <<storedKey, envKey, otherThanClient>>

\* The video view is not in use.
VideoQuiet ==
    /\ VideoVarsInit
    /\ svcCompletes /\ vwApiKey = KeyGood /\ ~vwAddWatermark /\ vwSelectedModel = "veo2"

ClientInit ==
    /\ storedKey \in {Null, KeyGood, KeyBad}
    /\ envKey \in {Null, KeyGood}
    /\ call = CallIdle
    /\ VideoQuiet
    /\ ImageQuiet /\ ChatQuiet /\ SetupQuiet /\ AppQuiet("IMAGE")

ClientNext ==
    \/ CallValidateApiKey
    \/ CallGenerateImage
    \/ CallEditImage
    \/ ValidateSettles
    \/ GenerateImagesSettles
    \/ GenerateContentSettles
    \/ CallDone

SpecClient == ClientInit /\ [][ClientNext]_vars

\* ------------------------------------------------------- ImageGenerator

ImagePrompts == Prompts \cup {<<" ">>}
EditPrompts ==
    {<<>>, <<"make it blue">>, <<"data:", "image/png", ";base64,", "Zm9v">>}
UploadFiles == {FilePng, FileUntyped}

\* The answers of the service that the image view is run against: one of each
\* shape with at most one image, or one part.
ImageAnswers ==
    {r \in ImageResponses :
        r.generatedImages = <<>> \/ Len(r.generatedImages[1]) <= 1}
EditAnswers ==
    {r \in EditResponses :
        \/ CandidateParts(r) = <<>>
        \/ Len(CandidateParts(r)[1]) <= 1}

ImageWatermark == <<". ", "<image watermark instruction>">>
EditWatermark == <<". ", "<edit watermark instruction>">>

\* Lines 38-40
FinalImagePrompt(v) ==
    IF v.addWatermark THEN Trim(v.prompt) \o ImageWatermark ELSE v.prompt

\* Lines 62-64
FinalEditPrompt(v) ==
    IF v.addWatermark THEN Trim(v.editPrompt) \o EditWatermark ELSE v.editPrompt

\* The prompt textarea takes input (line 128).
PromptEnabled(v) == ~(v.isLoading \/ ~Falsy(v.imageUrl))

\* The "Generate Image" button shows (line 131) and is enabled (line 160).
GenerateEnabled(v) ==
    Falsy(v.imageUrl) /\ ~(v.isLoading \/ Falsy(Trim(v.prompt)))

\* The upload input shows (line 178) and is enabled (line 183).
UploadEnabled(v) == Falsy(v.imageUrl) /\ ~v.isLoading

\* The result panel with the edit form, Download and Start Over shows (line 195).
ResultPanelShown(v) == ~Falsy(v.imageUrl) /\ ~v.isLoading /\ v.error = "none"

\* The "Edit Image" button is enabled (line 229); pressing Enter in the edit
\* input submits the form only when it is.
EditEnabled(v) ==
    ResultPanelShown(v) /\ ~(v.isLoading \/ Falsy(Trim(v.editPrompt)))

\* Line 30: handleGenerate returns at once.
GenerateReturnsEarly(v) == Falsy(Trim(v.prompt)) \/ v.isLoading

\* Line 55: handleEdit returns at once.
EditReturnsEarly(v) ==
    Falsy(Trim(v.editPrompt)) \/ Falsy(v.imageUrl) \/ v.isLoading

\* Lines 32-35
GenerateStarted(v) ==
    [v EXCEPT !.isLoading = TRUE, !.error = "none", !.imageUrl = Null,
              !.originalImageUrlForEdit = Null, !.pc = "generate"]

\* Lines 43-50: the await on generateImage resumes with the settled call c.
GenerateSettled(v, c) ==
    IF c.error = "none"
    THEN [v EXCEPT !.imageUrl = c.result, !.isLoading = FALSE, !.pc = "idle"]
    ELSE [v EXCEPT !.error = c.error, !.isLoading = FALSE, !.pc = "idle"]

\* Lines 57-59
EditStarted(v) ==
    [v EXCEPT !.isLoading = TRUE, !.error = "none",
              !.originalImageUrlForEdit = v.imageUrl, !.pc = "edit"]

\* Lines 67-76: the await on editImage resumes with the settled call c.
EditSettled(v, c) ==
    IF c.error = "none"
    THEN [v EXCEPT !.imageUrl = c.result, !.editPrompt = <<>>,
                   !.isLoading = FALSE, !.pc = "idle"]
    ELSE [v EXCEPT !.error = c.error, !.originalImageUrlForEdit = Null,
                   !.isLoading = FALSE, !.pc = "idle"]

SetImagePrompt ==
    /\ PromptEnabled(img)
    /\ \E p \in ImagePrompts : img' = [img EXCEPT !.prompt = p]
    /\ UNCHANGED <<call, readers, otherThanImage>>

SetEditPrompt ==
    /\ ResultPanelShown(img)
    /\ \E p \in EditPrompts : img' = [img EXCEPT !.editPrompt = p]
    /\ UNCHANGED <<call, readers, otherThanImage>>

\* handleGenerate (lines 28-51).  Line 43 passes (apiKey, finalPrompt,
\* aspectRatio) to generateImage(prompt, aspectRatio), which takes the first
\* two.  A call that fails before its await rejects at once.
HandleGenerate ==
    /\ GenerateEnabled(img)
    /\ IF GenerateReturnsEarly(img) THEN UNCHANGED <<img, call>>
       ELSE LET c == GenerateImage(img.apiKey, FinalImagePrompt(img)) IN
            /\ call' = c
            /\ img' = IF c.pc = "settled"
                      THEN GenerateSettled(GenerateStarted(img), c)
                      ELSE GenerateStarted(img)
    /\ UNCHANGED <<readers, otherThanImage>>

\* handleEdit (lines 53-77).  Line 67 passes (apiKey, finalEditPrompt, imageUrl)
\* to editImage(prompt, imageDataUrl), which takes the first two.
HandleEdit ==
    /\ EditEnabled(img)
    /\ IF EditReturnsEarly(img) THEN UNCHANGED <<img, call>>
       ELSE LET c == EditImage(img.apiKey, FinalEditPrompt(img)) IN
            /\ call' = c
            /\ img' = IF c.pc = "settled"
                      THEN EditSettled(EditStarted(img), c)
                      ELSE EditStarted(img)
    /\ UNCHANGED <<readers, otherThanImage>>

\* ImageGenerateSettles of a client that saves the key it has used.
ImageGenerateSettlesStoresKey ==
    /\ img.pc = "generate" /\ call.pc = "await"
    /\ \E outcome \in Outcomes(call.apiKey), response \in ImageAnswers :
         LET c == GenerateImageAfter(call, outcome, response) IN
         /\ call' = c
         /\ img' = GenerateSettled(img, c)
    /\ storedKey' = KeyGood
    /\ UNCHANGED <<readers, videoVars, envKey, chatVars, setupVars, appVars>>

\* ai.models.generateImages of the view's call settles.
ImageGenerateSettles ==
    /\ img.pc = "generate" /\ call.pc = "await"
    /\ \E outcome \in Outcomes(call.apiKey), response \in ImageAnswers :
         LET c == GenerateImageAfter(call, outcome, response) IN
         /\ call' = c
         /\ img' = GenerateSettled(img, c)
    /\ UNCHANGED <<readers, otherThanImage>>

\* ai.models.generateContent of the view's call settles.
ImageEditSettles ==
    /\ img.pc = "edit" /\ call.pc = "await"
    /\ \E outcome \in Outcomes(call.apiKey), response \in EditAnswers :
         LET c == EditImageAfter(call, outcome, response) IN
         /\ call' = c
         /\ img' = EditSettled(img, c)
    /\ UNCHANGED <<readers, otherThanImage>>

\* handleImageUpload (lines 79-94): a FileReader starts on the chosen file.
HandleImageUpload ==
    /\ UploadEnabled(img)
    /\ ~img.isLoading
    /\ \E file \in UploadFiles : readers' = readers \cup {file}
    /\ UNCHANGED <<img, call, otherThanImage>>

\* reader.onload (lines 84-88)
ReaderLoads ==
    /\ \E file \in readers :
         /\ readers' = readers \ {file}
         /\ img' = [img EXCEPT !.imageUrl = ReadAsDataURL(file),
                               !.originalImageUrlForEdit = Null,
                               !.error = "none"]
    /\ UNCHANGED <<call, otherThanImage>>

\* reader.onerror (lines 89-91)
ReaderFails ==
    /\ \E file \in readers :
         /\ readers' = readers \ {file}
         /\ img' = [img EXCEPT !.error = "FileError"]
    /\ UNCHANGED <<call, otherThanImage>>

\* handleStartOver (lines 106-112)
HandleStartOver ==
    /\ ResultPanelShown(img)
    /\ img' = [img EXCEPT !.imageUrl = Null, !.originalImageUrlForEdit = Null,
                          !.prompt = <<>>, !.editPrompt = <<>>, !.error = "none"]
    /\ UNCHANGED <<call, readers, otherThanImage>>

\* ------------------------------------------------------- LiveChatWidget

\* The longest conversation that is followed, in messages.
MaxMessages == 5

\* The most chunks one answer stream yields.
MaxChunks == 2

ChatInputs == {<<>>, <<" ">>, <<"hi">>}
ChunkTexts == {<<"Hel">>, <<"lo">>, Null}

\* The input takes text (line 159).
ChatInputEnabled(v) == ~(v.isLoading \/ ~v.chat)

\* The send button is enabled (line 162); pressing Enter in the input submits
\* the form only when it is.
SendEnabled(v) == ~(v.isLoading \/ Falsy(Trim(v.input)) \/ ~v.chat)

\* Line 64: handleSubmit returns at once.
SubmitReturnsEarly(v) == Falsy(Trim(v.input)) \/ v.isLoading \/ ~v.chat

\* prev.slice(0, -2)
DropLastTwo(messages) ==
    IF Len(messages) <= 2 THEN <<>> ELSE SubSeq(messages, 1, Len(messages) - 2)

\* Lines 66-74: up to the await on chat.sendMessageStream.
SubmitStarted(v) ==
    [v EXCEPT !.messages = Append(@, [role |-> "user", text |-> v.input]),
              !.currentInput = v.input, !.input = <<>>, !.isLoading = TRUE,
              !.error = "none", !.pc = "send", !.nChunks = 0,
              !.chunks = <<>>]

\* Lines 93-100: the catch and finally blocks.
ChatFailed(v, kind) ==
    [v EXCEPT !.error = kind, !.messages = DropLastTwo(@),
              !.isLoading = FALSE, !.pc = "idle"]

\* Line 76: the stream is there; an empty answer is appended.
StreamOpened(v) ==
    [v EXCEPT !.messages = Append(@, [role |-> "model", text |-> <<>>]),
              !.pc = "stream"]

\* Lines 79-91: a chunk's text goes to the end of the last message when that is
\* an answer.
ChunkAppended(v, chunkText) ==
    LET n == Len(v.messages) IN
    IF n >= 1 /\ v.messages[n].role = "model"
    THEN [v EXCEPT !.messages[n].text = @ \o Str(chunkText), !.nChunks = @ + 1,
                   !.chunks = Append(@, chunkText)]
    ELSE [v EXCEPT !.nChunks = @ + 1, !.chunks = Append(@, chunkText)]

\* Lines 92, 98-100: the stream is exhausted.
StreamDone(v) == [v EXCEPT !.isLoading = FALSE, !.pc = "idle"]

SetChatInput ==
    /\ ChatInputEnabled(lcw)
    /\ \E text \in ChatInputs : lcw' = [lcw EXCEPT !.input = text]
    /\ UNCHANGED <<cc, otherThanChat>>

\* handleSubmit (lines 62-101), to its first await.
ChatHandleSubmit ==
    /\ SendEnabled(lcw)
    /\ Len(lcw.messages) + 2 <= MaxMessages
    /\ lcw' = IF SubmitReturnsEarly(lcw) THEN lcw ELSE SubmitStarted(lcw)
    /\ UNCHANGED <<cc, otherThanChat>>

\* chat.sendMessageStream settles.
SendMessageStreamSettles ==
    /\ lcw.pc = "send"
    /\ \E outcome \in Outcomes(lcw.apiKey) :
         lcw' = IF outcome = "ok" THEN StreamOpened(lcw)
                ELSE ChatFailed(lcw, "RemoteError")
    /\ UNCHANGED <<cc, otherThanChat>>

\* The stream yields a chunk.
StreamYields ==
    /\ lcw.pc = "stream" /\ lcw.nChunks < MaxChunks
    /\ \E chunkText \in ChunkTexts : lcw' = ChunkAppended(lcw, chunkText)
    /\ UNCHANGED <<cc, otherThanChat>>

\* The stream ends.
StreamEnds ==
    /\ lcw.pc = "stream"
    /\ lcw' = StreamDone(lcw)
    /\ UNCHANGED <<cc, otherThanChat>>

\* The stream breaks.
StreamThrows ==
    /\ lcw.pc = "stream"
    /\ lcw' = ChatFailed(lcw, "RemoteError")
    /\ UNCHANGED <<cc, otherThanChat>>

\* ---------------------------------------------------------- ChatComponent

\* Lines 264-270: the catch and finally blocks; the messages stay.
ChatComponentFailed(v, kind) ==
    [v EXCEPT !.error = kind, !.isLoading = FALSE, !.pc = "idle"]

CcSetInput ==
    /\ ChatInputEnabled(cc)
    /\ \E text \in ChatInputs : cc' = [cc EXCEPT !.input = text]
    /\ UNCHANGED <<lcw, otherThanChat>>

\* handleSubmit (lines 233-271), to its first await.
CcHandleSubmit ==
    /\ SendEnabled(cc)
    /\ Len(cc.messages) + 2 <= MaxMessages
    /\ cc' = IF SubmitReturnsEarly(cc) THEN cc ELSE SubmitStarted(cc)
    /\ UNCHANGED <<lcw, otherThanChat>>

\* chat.sendMessageStream settles.
CcSendMessageStreamSettles ==
    /\ cc.pc = "send"
    /\ \E outcome \in Outcomes(cc.apiKey) :
         cc' = IF outcome = "ok" THEN StreamOpened(cc)
               ELSE ChatComponentFailed(cc, "RemoteError")
    /\ UNCHANGED <<lcw, otherThanChat>>

\* The stream yields a chunk.
CcStreamYields ==
    /\ cc.pc = "stream" /\ cc.nChunks < MaxChunks
    /\ \E chunkText \in ChunkTexts : cc' = ChunkAppended(cc, chunkText)
    /\ UNCHANGED <<lcw, otherThanChat>>

\* The stream ends.
CcStreamEnds ==
    /\ cc.pc = "stream"
    /\ cc' = StreamDone(cc)
    /\ UNCHANGED <<lcw, otherThanChat>>

\* The stream breaks.
CcStreamThrows ==
    /\ cc.pc = "stream"
    /\ cc' = ChatComponentFailed(cc, "RemoteError")
    /\ UNCHANGED <<lcw, otherThanChat>>

\* ---------------------------------------------------------------- the App

\* handleApiKeySubmit (part_003 lines 215-219)
HandleApiKeySubmit(newApiKey) ==
    /\ storedKey' = newApiKey
    /\ appApiKey' = newApiKey
    /\ previousApiKey' = Null

\* handleClearApiKey that leaves the stored key in place.
HandleClearApiKeyKeepsStored ==
    /\ previousApiKey' = appApiKey
    /\ storedKey' = storedKey
    /\ appApiKey' = Null

\* handleClearApiKey (part_003 lines 221-225)
HandleClearApiKey ==
    /\ previousApiKey' = appApiKey
    /\ storedKey' = Null
    /\ appApiKey' = Null

\* handleCancelApiKeySetup that brings the key back in memory only.
HandleCancelKeepsStored ==
    IF ~Falsy(previousApiKey)
    THEN /\ storedKey' = storedKey
         /\ appApiKey' = previousApiKey
         /\ previousApiKey' = Null
    ELSE UNCHANGED <<storedKey, appApiKey, previousApiKey>>

\* handleCancelApiKeySetup (part_003 lines 227-233)
HandleCancelApiKeySetup ==
    IF ~Falsy(previousApiKey)
    THEN /\ storedKey' = previousApiKey
         /\ appApiKey' = previousApiKey
         /\ previousApiKey' = Null
    ELSE UNCHANGED <<storedKey, appApiKey, previousApiKey>>

\* VideoGenerator is mounted anew (part_001 lines 296-307) with apiKeyProp: its
\* state is the initial one, and a handleSubmit that an earlier instance
\* started goes on without a component.
VideoGeneratorMounts(apiKeyProp) ==
    /\ vwApiKey' = apiKeyProp
    /\ vwPrompt' = <<"A majestic cinematic shot of a futuristic city at sunset">>
    /\ vwImageFile' = <<>>
    /\ vwAddWatermark' = FALSE
    /\ vwSelectedModel' = "veo2"
    /\ vwIsLoading' = FALSE
    /\ vwError' = "none"
    /\ vwResultUri' = Null
    /\ detached' = (hpc # "idle")
    /\ UNCHANGED <<veo, svcVars, hpc, hs>>

\* renderContent (part_003 lines 248-256) once the setup screen has handed a
\* key to App: the generator of the current mode is mounted.
GeneratorMounts ==
    IF mode = "VIDEO" THEN VideoGeneratorMounts(appApiKey')
    ELSE UNCHANGED videoVars

\* What renderContent and renderActiveGenerator put on screen (lines 235-256).
SetupMounted == Falsy(appApiKey)
ImageMounted == ~Falsy(appApiKey) /\ mode = "IMAGE"
VideoMounted == ~Falsy(appApiKey) /\ mode = "VIDEO"
ChatMounted == ~Falsy(appApiKey) /\ isLiveChatOpen
ChatViewMounted == ~Falsy(appApiKey) /\ mode = "CHAT"

\* The apiKey prop that App gives to <Chat /> (part_003 line 242) and to
\* <LiveChatWidget onClose=... /> (line 287): none.
ChatApiKeyProp == Null
LiveChatApiKeyProp == Null

\* ------------------------------------------------------------ ApiKeySetup

\* A key typed with blanks around it.
KeyPadded == <<" ">> \o KeyGood \o <<" ">>

KeyInputs == {<<>>, <<" ">>, KeyGood, KeyBad, KeyPadded}

\* KeyInputChanged of an effect that leaves the pending timer running.
KeyInputChangedKeepsTimer(v, k) ==
    IF Falsy(Trim(k))
    THEN [v EXCEPT !.keyInput = k, !.validationStatus = "idle"]
    ELSE [v EXCEPT !.keyInput = k, !.timer = Append(@, k),
                   !.validationStatus = "validating"]

\* The validation effect (fileUtils.ts lines 62-83) after the input became k:
\* the pending timer is cleared; a blank input sets 'idle', any other sets
\* 'validating' and a new timer.
KeyInputChanged(v, k) ==
    IF Falsy(Trim(k))
    THEN [v EXCEPT !.keyInput = k, !.timer = <<>>, !.validationStatus = "idle"]
    ELSE [v EXCEPT !.keyInput = k, !.timer = <<k>>,
                   !.validationStatus = "validating"]

\* Lines 77-82: validateApiKey has returned to the timer's callback.
ValidationSettled(v, c) ==
    IF c.isValid = <<TRUE>>
    THEN [v EXCEPT !.validationStatus = "valid",
                   !.validated = @ \cup {c.args.apiKey}]
    ELSE [v EXCEPT !.validationStatus = "invalid"]

\* The user edits the key input (line 127).
SetKeyInput ==
    /\ \E k \in KeyInputs \ {setup.keyInput} : setup' = KeyInputChanged(setup, k)
    /\ UNCHANGED otherThanSetup

\* The 750 ms timer fires (line 76): validateApiKey is called with the trimmed
\* input that the timer closed over.
DebounceFires ==
    /\ setup.timer # <<>>
    /\ LET c == ValidateApiKey(Trim(setup.timer[1]))
           v == [setup EXCEPT !.timer = Tail(@)] IN
       setup' = IF c.pc = "settled" THEN ValidationSettled(v, c)
                ELSE [v EXCEPT !.inFlight = @ \cup {c.apiKey}]
    /\ UNCHANGED otherThanSetup

\* ai.models.generateContent of one validateApiKey under way settles.
ValidationSettles ==
    /\ \E key \in setup.inFlight :
         \E outcome \in Outcomes(key) :
           setup' = ValidationSettled([setup EXCEPT !.inFlight = @ \ {key}],
                                      ValidateAfter(ValidateApiKey(key), outcome))
    /\ UNCHANGED otherThanSetup

\* "Start Generating" (lines 158-165): onApiKeySubmit(keyInput.trim()); App
\* takes the key and unmounts the setup screen.
StartGenerating ==
    /\ setup.validationStatus = "valid"
    /\ HandleApiKeySubmit(Trim(setup.keyInput))
    /\ setup' = ApiKeySetupState(<<>>)
    /\ GeneratorMounts
    /\ UNCHANGED <<envKey, call, imageVars, chatVars, mode,
                   isLiveChatOpen, storedAccent, storedBackground>>

\* "Close" (lines 102-113), shown when there is a previous key.
CloseSetup ==
    /\ ~Falsy(previousApiKey)
    /\ HandleCancelApiKeySetup
    /\ setup' = ApiKeySetupState(<<>>)
    /\ GeneratorMounts
    /\ UNCHANGED <<envKey, call, imageVars, chatVars, mode,
                   isLiveChatOpen, storedAccent, storedBackground>>

\* -------------------------------------------------- the views, one by one

ImageForms == {<< <<"1:1">>, FALSE >>, << <<"9:16">>, TRUE >>}

\* The setup screen shows (no key), after a first load or after a key was cleared.
OnSetup ==
    /\ storedKey = Null /\ appApiKey = Null
    /\ previousApiKey \in {Null, KeyGood, KeyBad}
    /\ setup = ApiKeySetupState(IF previousApiKey = Null THEN <<>> ELSE previousApiKey)
    /\ mode = "IMAGE" /\ isLiveChatOpen = FALSE
    /\ ImageQuiet /\ VideoQuiet /\ ChatQuiet

\* A key is there and the image generator shows.
OnImage ==
    /\ storedKey \in {Null, KeyGood, KeyBad} /\ appApiKey \in ApiKeys
    /\ storedKey # Null => appApiKey = storedKey
    /\ previousApiKey = Null /\ SetupQuiet
    /\ mode = "IMAGE" /\ isLiveChatOpen = FALSE
    /\ \E prop \in {Null, KeyGood}, form \in ImageForms :
         img = ImageGeneratorState(prop, form[1], form[2])
    /\ readers = {}
    /\ VideoQuiet /\ ChatQuiet

\* A key is there and the video generator shows.
OnVideo ==
    /\ appApiKey \in ApiKeys /\ storedKey = appApiKey /\ vwApiKey = appApiKey
    /\ previousApiKey = Null /\ SetupQuiet
    /\ mode = "VIDEO" /\ isLiveChatOpen = FALSE
    /\ VideoVarsInit /\ ImageQuiet /\ ChatQuiet

\* A key is there and the live chat is open.
OnChat ==
    /\ storedKey = KeyGood /\ appApiKey = KeyGood
    /\ previousApiKey = Null /\ SetupQuiet
    /\ mode = "IMAGE" /\ isLiveChatOpen = TRUE
    /\ \E prop \in {Null, KeyGood, KeyBad} : lcw = LiveChatWidgetState(prop)
    /\ cc = ChatComponentState(Null)
    /\ ImageQuiet /\ VideoQuiet

\* A key is there and the Chat view shows.
OnChatView ==
    /\ storedKey = KeyGood /\ appApiKey = KeyGood
    /\ previousApiKey = Null /\ SetupQuiet
    /\ mode = "CHAT" /\ isLiveChatOpen = FALSE
    /\ \E prop \in {Null, KeyGood, KeyBad} : cc = ChatComponentState(prop)
    /\ lcw = LiveChatWidgetState(Null)
    /\ ImageQuiet /\ VideoQuiet

ViewsInit ==
    /\ envKey = Null /\ call = CallIdle
    /\ storedAccent = "indigo" /\ storedBackground = DEFAULT_BACKGROUND_URL
    /\ OnSetup \/ OnImage \/ OnVideo \/ OnChat \/ OnChatView

\* The views share no state that any of them writes: a behaviour follows the
\* one the user works in (the live chat when it is open).
ImageInUse == ImageMounted /\ ~isLiveChatOpen
VideoInUse == VideoMounted /\ ~isLiveChatOpen
ChatViewInUse == ChatViewMounted /\ ~isLiveChatOpen

ViewsNext ==
    \/ SetupMounted /\ SetKeyInput
    \/ SetupMounted /\ DebounceFires
    \/ SetupMounted /\ ValidationSettles
    \/ SetupMounted /\ StartGenerating
    \/ SetupMounted /\ CloseSetup
    \/ ImageInUse /\ SetImagePrompt
    \/ ImageInUse /\ SetEditPrompt
    \/ ImageInUse /\ HandleGenerate
    \/ ImageInUse /\ HandleEdit
    \/ ImageInUse /\ ImageGenerateSettles
    \/ ImageInUse /\ ImageEditSettles
    \/ ImageInUse /\ HandleImageUpload
    \/ ImageInUse /\ ReaderLoads
    \/ ImageInUse /\ ReaderFails
    \/ ImageInUse /\ HandleStartOver
    \/ VideoInUse /\ HandleSubmit
    \/ VideoInUse /\ FileToBase64Settles
    \/ VideoInUse /\ GenerateVideosReturns
    \/ VideoInUse /\ TimerFires
    \/ VideoInUse /\ GetVideosOperationReturns
    \/ VideoInUse /\ FetchReturns
    \/ VideoInUse /\ BlobReturns
    \/ VideoInUse /\ SetPrompt
    \/ VideoInUse /\ HandleFileChange
    \/ VideoInUse /\ RemoveImage
    \/ ChatMounted /\ SetChatInput
    \/ ChatMounted /\ ChatHandleSubmit
    \/ ChatMounted /\ SendMessageStreamSettles
    \/ ChatMounted /\ StreamYields
    \/ ChatMounted /\ StreamEnds
    \/ ChatMounted /\ StreamThrows
    \/ ChatViewInUse /\ CcSetInput
    \/ ChatViewInUse /\ CcHandleSubmit
    \/ ChatViewInUse /\ CcSendMessageStreamSettles
    \/ ChatViewInUse /\ CcStreamYields
    \/ ChatViewInUse /\ CcStreamEnds
    \/ ChatViewInUse /\ CcStreamThrows

SpecViews == ViewsInit /\ [][ViewsNext]_vars

\* ------------------------------------------------- App and the video view

Modes == {"IMAGE", "VIDEO", "CHAT"}

\* A change of mode that ends the invocation the unmounted view had started.
SetModeCancels ==
    /\ ~Falsy(appApiKey)
    /\ \E newMode \in Modes \ {mode} :
         /\ mode' = newMode
         /\ IF mode = "VIDEO" \/ newMode = "VIDEO"
            THEN /\ vwApiKey' = appApiKey
                 /\ vwIsLoading' = FALSE /\ vwError' = "none" /\ vwResultUri' = Null
                 /\ veo' = VeoIdle /\ hpc' = "idle" /\ detached' = FALSE
                 /\ UNCHANGED <<svcVars, hs, vwPrompt, vwImageFile,
                                vwAddWatermark, vwSelectedModel>>
            ELSE UNCHANGED videoVars
         /\ cc' = IF mode = "CHAT" \/ newMode = "CHAT"
                  THEN ChatComponentState(ChatApiKeyProp)
                  ELSE cc
    /\ UNCHANGED <<clientVars, imageVars, lcw, setupVars, appApiKey,
                   previousApiKey, isLiveChatOpen, storedAccent, storedBackground>>

\* Header (part_002 lines 109-135): the user picks another generator; the one
\* on screen is unmounted and the chosen one mounted (lines 235-246).
SetMode ==
    /\ ~Falsy(appApiKey)
    /\ \E newMode \in Modes \ {mode} :
         /\ mode' = newMode
         /\ IF mode = "VIDEO" \/ newMode = "VIDEO"
            THEN VideoGeneratorMounts(appApiKey)
            ELSE UNCHANGED videoVars
         /\ cc' = IF mode = "CHAT" \/ newMode = "CHAT"
                  THEN ChatComponentState(ChatApiKeyProp)
                  ELSE cc
    /\ UNCHANGED <<clientVars, imageVars, lcw, setupVars, appApiKey,
                   previousApiKey, isLiveChatOpen, storedAccent, storedBackground>>

\* ApiKeyManager's button (part_003 lines 177-190, 262): the key is cleared,
\* the generator is unmounted and the setup screen mounted with the key as
\* its initial value (lines 248-256).
ClearApiKey ==
    /\ ~Falsy(appApiKey)
    /\ HandleClearApiKey
    /\ setup' = ApiKeySetupState(appApiKey)
    /\ IF mode = "VIDEO" THEN VideoGeneratorMounts(Null)
       ELSE UNCHANGED videoVars
    /\ lcw' = LiveChatWidgetState(LiveChatApiKeyProp)
    /\ cc' = ChatComponentState(ChatApiKeyProp)
    /\ UNCHANGED <<envKey, call, imageVars, mode, isLiveChatOpen,
                   storedAccent, storedBackground>>

\* The live chat button (part_003 lines 287-292) and the widget's onClose:
\* the widget is mounted, or unmounted.
ToggleLiveChat ==
    /\ ~Falsy(appApiKey)
    /\ isLiveChatOpen' = ~isLiveChatOpen
    /\ lcw' = LiveChatWidgetState(LiveChatApiKeyProp)
    /\ UNCHANGED <<videoVars, clientVars, imageVars, cc, setupVars, appApiKey,
                   previousApiKey, mode, storedAccent, storedBackground>>

\* App as loaded with a stored key, the user having gone to the video view.
AppInit ==
    /\ VideoVarsInit
    /\ vwApiKey = KeyGood /\ ~vwAddWatermark /\ vwSelectedModel = "veo2"
    /\ storedKey = KeyGood /\ envKey = Null /\ call = CallIdle
    /\ ImageQuiet /\ ChatQuiet /\ SetupQuiet
    /\ AppQuiet("VIDEO")

\* The video view is in the hands of the user when it is on screen; a new
\* submit is taken up once the invocation of an unmounted instance is over.
AppNext ==
    \/ VideoMounted /\ ~detached /\ HandleSubmit
    \/ VideoMounted /\ SetPrompt
    \/ VideoMounted /\ HandleFileChange
    \/ VideoMounted /\ RemoveImage
    \/ FileToBase64Settles
    \/ GenerateVideosReturns
    \/ TimerFires
    \/ GetVideosOperationReturns
    \/ FetchReturns
    \/ BlobReturns
    \/ SetMode
    \/ ClearApiKey
    \/ ToggleLiveChat
    \/ SetupMounted /\ DebounceFires
    \/ SetupMounted /\ ValidationSettles
    \/ SetupMounted /\ StartGenerating
    \/ SetupMounted /\ CloseSetup

SpecApp == AppInit /\ [][AppNext]_vars

\* ------------------------------------------------------ App and its API key

\* App as loaded (part_003 lines 193-200): apiKey is the stored key or, when
\* none is stored, the key of the environment; the image generator shows when
\* there is a key, the setup screen with an empty input when there is none.
KeysInit ==
    /\ \/ storedKey \in {Null, KeyGood, KeyBad} /\ envKey = Null
       \/ storedKey = Null /\ envKey = KeyGood
    /\ appApiKey = (IF Falsy(storedKey) THEN envKey ELSE storedKey)
    /\ previousApiKey = Null
    /\ mode = "IMAGE" /\ isLiveChatOpen = FALSE
    /\ storedAccent = "indigo" /\ storedBackground = DEFAULT_BACKGROUND_URL
    /\ call = CallIdle
    /\ ImageQuiet /\ VideoQuiet /\ ChatQuiet /\ SetupQuiet

\* Everything that leads to handleApiKeySubmit, handleClearApiKey or
\* handleCancelApiKeySetup, and the changes of view around them.
KeysNext ==
    \/ SetupMounted /\ SetKeyInput
    \/ SetupMounted /\ DebounceFires
    \/ SetupMounted /\ ValidationSettles
    \/ SetupMounted /\ StartGenerating
    \/ SetupMounted /\ CloseSetup
    \/ ClearApiKey
    \/ SetMode
    \/ ToggleLiveChat

SpecKeys == KeysInit /\ [][KeysNext]_vars

\* ------------------------------------------------------------------ claims

Done(v) == v.operation # <<>> /\ v.operation[1].done

\* The job of the running invocation was submitted incomplete, and the
\* service reports "incomplete" svcN times before "complete".
JobOfN(v) == v.operation # <<>> /\ svcN >= 0

\* C1: when the submission returns an incomplete operation and the service
\* reports "incomplete" for N status checks and then "complete", the poller
\* suspends exactly once before each status fetch, has issued exactly N+1 status
\* fetches when it sees the operation complete, and is past the loop (download,
\* return) only with N+1 fetches made.
C1_ExactlyNPlusOneFetches ==
    JobOfN(veo) =>
        /\ veo.nSleep = veo.nStatus + (IF veo.pc = "sleep" THEN 1 ELSE 0)
        /\ veo.nStatus <= svcN + 1
        /\ Done(veo) => veo.nStatus = svcN + 1 /\ veo.nSleep = svcN + 1
        /\ veo.pc \in {"fetch", "blob", "returned"} => Done(veo)
        /\ veo.result # Null => veo.pc = "returned" /\ veo.nStatus = svcN + 1

C1_Witness ==
    /\ JobOfN(veo) /\ svcN = 2
    /\ veo.pc = "returned" /\ veo.result = ObjectUrl
    /\ veo.nStatus = 3 /\ veo.nSleep = 3

\* C2: no status fetch is issued once an operation state with done = true has been
\* observed: the poller is then never suspended in the loop, a step of the same
\* invocation leaves the number of status fetches alone, and an operation that
\* came back complete from the submission is never polled.
C2_NoPollAfterDone ==
    /\ [](Done(veo) => veo.pc \notin {"sleep", "poll"})
    /\ [][Done(veo) => veo'.nStatus = veo.nStatus \/ veo'.operation = <<>>]_vars
    /\ [](Done(veo) /\ svcN = -1 => veo.nStatus = 0 /\ veo.nSleep = 0)

C2_Witness ==
    /\ Done(veo) /\ veo.pc = "fetch" /\ veo.nStatus = 2

\* C3: when the completed operation carries no result URI the poller fails with
\* GenerationFailed and no download fetch is issued.
C3_NoUriFails ==
    Done(veo) /\ veo.operation[1].response # RespWith(Uri) =>
        /\ veo.pc = "failed" /\ veo.error = "GenerationFailed"
        /\ veo.nDownload = 0 /\ veo.fetchedUrl = Null
        /\ veo.result = Null

C3_Witness ==
    /\ Done(veo) /\ veo.operation[1].response = RespNoVideo
    /\ veo.pc = "failed" /\ veo.nStatus = 1 /\ vwError = "GenerationFailed"

\* C4: after a completed operation with a result URI exactly one download fetch is
\* issued, of that URI with the credential appended; when its status is not
\* successful the poller fails with DownloadFailed and creates no object URL.
C4_OneDownloadFetch ==
    Done(veo) /\ veo.operation[1].response = RespWith(Uri) =>
        /\ veo.nDownload = 1
        /\ veo.fetchedUrl = Uri \o <<"&key=">> \o veo.args.apiKey
        /\ veo.args.apiKey = hs.apiKey
        /\ veo.fetchOk = <<FALSE>> =>
              /\ veo.pc = "failed" /\ veo.error = "DownloadFailed"
              /\ veo.result = Null /\ veo.nObjectUrls = 0

C4_Witness ==
    /\ veo.fetchOk = <<FALSE>> /\ veo.error = "DownloadFailed"
    /\ veo.nDownload = 1 /\ vwError = "DownloadFailed" /\ ~vwIsLoading

\* The phases of section 4.2, by the await the poller is suspended at.
Phase(pc) ==
    CASE pc = "submit" -> "Submitted"
      [] pc \in {"sleep", "poll"} -> "Polling"
      [] pc = "fetch" -> "Completed"
      [] pc \in {"blob", "returned"} -> "Downloaded"
      [] OTHER -> "None"

Rank(pc) ==
    CASE pc = "idle" -> 0
      [] pc = "submit" -> 1
      [] pc \in {"sleep", "poll"} -> 2
      [] pc = "fetch" -> 3
      [] pc = "blob" -> 4
      [] pc = "returned" -> 5
      [] pc = "failed" -> 6

\* C5: a run moves forward through Submitted, Polling, Completed, Downloaded
\* and never backwards; only Polling is entered from itself; the
\* submission is issued once and before any status fetch, the download fetch
\* only after completion was observed, and a result is returned only in
\* Downloaded.
C5_PhaseOrder ==
    /\ [][veo' # veo =>
            \/ Rank(veo.pc) < Rank(veo'.pc)
            \/ Phase(veo.pc) = "Polling" /\ Phase(veo'.pc) = "Polling"
            \/ /\ veo.pc \in {"idle", "returned", "failed"}
               /\ veo' = VeoIdle \/ (veo'.pc = "submit" /\ veo'.nStatus = 0)]_vars
    /\ [](/\ veo.nSubmit = (IF veo.pc = "idle" THEN 0 ELSE 1)
          /\ veo.nDownload <= 1
          /\ veo.nDownload = 1 => Done(veo)
          /\ Rank(veo.pc) \in 3..5 => Done(veo) /\ veo.nDownload = 1
          /\ veo.result # Null => Phase(veo.pc) = "Downloaded")

C5_Witness ==
    /\ Phase(veo.pc) = "Downloaded" /\ veo.pc = "blob"
    /\ veo.nStatus = 1 /\ veo.nSubmit = 1

Running == veo.pc \notin {"idle", "returned", "failed"}

\* C6: when every pending call settles and the service is one that eventually
\* reports completion, a running poller eventually settles and the view's
\* loading flag eventually becomes false; with a service that never reports
\* completion the poller never leaves the loop except by an error of a remote
\* call, however many polls it has made.
C6_Termination ==
    /\ (svcCompletes /\ Running) ~> VeoSettled(veo)
    /\ (svcCompletes /\ vwIsLoading) ~> ~vwIsLoading
    /\ [](~svcCompletes => /\ Rank(veo.pc) \notin 3..5
                           /\ veo.pc = "failed" => veo.error = "RemoteError")

C6_Witness ==
    /\ ~svcCompletes /\ veo.pc = "poll" /\ veo.nStatus = Cap /\ vwIsLoading

SettledCall(fn) == call.fn = fn /\ call.pc = "settled"

\* C7: validateApiKey never raises; it returns false for an empty string (without
\* a remote call), for an unauthorized string and for a network failure, and
\* true exactly when the remote call succeeded.
C7_ValidateNeverRaises ==
    call.fn = "validateApiKey" =>
        /\ call.error = "none"
        /\ call.pc = "settled" =>
              /\ call.isValid \in {<<TRUE>>, <<FALSE>>}
              /\ call.isValid = <<TRUE>> <=> call.remote = "ok" /\ call.nRemote = 1
              /\ Falsy(call.args.apiKey) => call.isValid = <<FALSE>> /\ call.nRemote = 0
              /\ call.args.apiKey = KeyBad => call.isValid = <<FALSE>>
              /\ call.remote \in {"unauthorized", "network"} => call.isValid = <<FALSE>>

C7_Witness ==
    /\ SettledCall("validateApiKey") /\ call.args.apiKey = KeyGood
    /\ call.remote = "network" /\ call.isValid = <<FALSE>>

\* The source artifact has no `data:` marker at its start.
Corrupted(dataUrl) == dataUrl = <<>> \/ Head(dataUrl) # "data:"

NoCredential == Falsy(storedKey) /\ Falsy(envKey)

\* C8 as claimed: editImage fed a source with a corrupted prefix fails with
\* InvalidInput and attempts no network call, whatever the stored credential.
C8_Original ==
    call.fn = "editImage" /\ Corrupted(call.args.imageDataUrl) =>
        /\ call.pc = "settled" /\ call.error = "InvalidInput"
        /\ call.nRemote = 0

\* C8 as amended: editImage fed a source with a corrupted prefix attempts no
\* network call, whatever the stored credential; it fails with InvalidInput when
\* a credential is available and with MissingCredential when none is.
C8_CorruptedPrefix ==
    call.fn = "editImage" /\ Corrupted(call.args.imageDataUrl) =>
        /\ call.pc = "settled" /\ call.nRemote = 0 /\ call.result = Null
        /\ call.error = (IF NoCredential THEN "MissingCredential" ELSE "InvalidInput")

C8_Witness ==
    /\ SettledCall("editImage") /\ storedKey = KeyGood
    /\ call.args.imageDataUrl = <<"image/png", ";base64,", "Zm9v">>
    /\ call.error = "InvalidInput" /\ call.nRemote = 0

\* The artifact string of an inline part.
PartUrl(inline) == <<"data:">> \o inline.mimeType \o <<";base64,">> \o inline.data

\* C9: for every response of the edit call with no inline-encoded part (no
\* candidates and no parts included) editImage fails with GenerationFailed; with
\* an inline part present it returns the first such part.
C9_NoInlinePartFails ==
    SettledCall("editImage") /\ call.remote = "ok" =>
        LET parts == CandidateParts(call.response[1])
            inline == IF parts = <<>> THEN <<>> ELSE FirstInline(parts[1]) IN
        IF inline = <<>>
        THEN call.error = "GenerationFailed" /\ call.result = Null
        ELSE call.error = "none" /\ call.result = PartUrl(inline[1])

\* data:image/png;base64,<nonempty>
WellFormedPng(url) ==
    /\ Len(url) >= 4
    /\ SubSeq(url, 1, 3) = <<"data:", "image/png", ";base64,">>
    /\ \A i \in 4..Len(url) : url[i] \notin {"data:", ";base64,", "\n"}

ImageMimes == {<<"image/png">>, <<"image/jpeg">>}

\* The bytes of the image that the settled call c returned, as the service
\* sent them.
ServiceBytes(c) ==
    IF c.fn = "generateImage"
    THEN c.response[1].generatedImages[1][1].image[1].imageBytes
    ELSE FirstInline(CandidateParts(c.response[1])[1])[1].data

\* C11: every artifact string returned by generateImage or editImage is
\* accepted by parseDataUrl, which yields a MIME type matching image/* and a
\* payload that is not empty and equals the bytes the service returned.
C11_RoundTrip ==
    /\ call.pc = "settled" /\ call.error = "none"
    /\ call.fn \in {"generateImage", "editImage"}
    => LET parsed == ParseDataUrl(call.result) IN
       /\ parsed # <<>>
       /\ parsed[1].mimeType \in ImageMimes
       /\ parsed[1].data # <<>>
       /\ parsed[1].data = ServiceBytes(call)

\* C12: whenever the service returns at least one generated image (the first
\* entry of generatedImages carries image bytes), generateImage returns exactly
\* data:image/png;base64, followed by the payload of that first image, after
\* exactly one remote call.
C12_FirstImagePayload ==
    SettledCall("generateImage") /\ call.remote = "ok" =>
        LET images == call.response[1].generatedImages IN
        /\ images # <<>>
        /\ Len(images[1]) > 0
        /\ images[1][1].image # <<>>
        /\ images[1][1].image[1].imageBytes # Null
        => /\ call.error = "none"
           /\ call.nRemote = 1
           /\ call.result = <<"data:", "image/png", ";base64,">>
                               \o images[1][1].image[1].imageBytes

C12_Witness ==
    /\ SettledCall("generateImage") /\ call.nRemote = 1 /\ call.remote = "ok"
    /\ call.args = [prompt |-> PromptCube, aspectRatio |-> <<"1:1">>]
    /\ call.response[1].generatedImages # <<>>
    /\ call.response[1].generatedImages[1]
         = << [image |-> << [imageBytes |-> <<"Zm9v">>] >>],
              [image |-> << [imageBytes |-> <<"QmFy">>] >>] >>
    /\ call.result = <<"data:", "image/png", ";base64,", "Zm9v">>

\* The credential getApiKey finds: the stored one, else the environment's.
AvailableKey == IF ~Falsy(storedKey) THEN storedKey ELSE envKey

\* C14: when no credential is stored and none is in the environment,
\* generateImage and editImage fail with MissingCredential and issue no remote
\* call; every remote call that is issued is given a credential (the available
\* one for generateImage and editImage, the argument for validateApiKey).
C14_MissingCredential ==
    /\ call.fn \in {"generateImage", "editImage"} /\ NoCredential =>
          /\ call.pc = "settled" /\ call.error = "MissingCredential"
          /\ call.nRemote = 0 /\ call.request = <<>>
    /\ call.nRemote > 0 =>
          /\ ~Falsy(call.apiKey)
          /\ call.fn = "validateApiKey" => call.apiKey = call.args.apiKey
          /\ call.fn # "validateApiKey" => call.apiKey = AvailableKey

C14_Witness ==
    /\ SettledCall("editImage") /\ NoCredential
    /\ call.args.imageDataUrl = <<"data:", "image/png", ";base64,", "Zm9v">>
    /\ call.error = "MissingCredential" /\ call.nRemote = 0

\* C13: the request that generateVideoWithVeo submits carries the caller's
\* prompt, model identifier and aspect ratio, and carries the seed image with
\* its MIME type exactly when the caller supplied a seed image.
C13_RequestCarriesInputs ==
    veo.pc # "idle" =>
        LET payload == veo.requestPayload IN
        /\ payload.prompt = veo.args.prompt
        /\ payload.model = veo.args.model
        /\ (payload.image # <<>>) <=> (veo.args.base64Image # Null)
        /\ payload.image # <<>> =>
              payload.image[1] = [imageBytes |-> veo.args.base64Image,
                                  mimeType |-> veo.args.mimeType]
        /\ "aspectRatio" \in DOMAIN payload.config
        /\ payload.config.aspectRatio = veo.args.aspectRatio

\* A control of the image view takes input or starts something: the prompt
\* (and with it "Generate Image"), the upload, or the result panel with its
\* edit form and "Start Over".
ImageActionAvailable(v) == PromptEnabled(v) \/ UploadEnabled(v) \/ ResultPanelShown(v)

\* The video form takes a prompt and, with one, a submit.
VideoActionAvailable == ~vwIsLoading /\ ~Falsy(vwApiKey)

\* C15: no failure is fatal to a view.  The step in which a request of the
\* image, video or chat view fails leaves the loading flag false and a message
\* shown, and in no state with the loading flag false is the user left without
\* a control that starts a fresh request or resets the view (the chat is taken
\* with its session open).
C15_NoFailureIsFatal ==
    /\ [][call' # call /\ call'.error # "none" =>
             ~img'.isLoading /\ img'.error = call'.error]_vars
    /\ [][veo' # veo /\ veo'.pc = "failed" =>
             ~vwIsLoading' /\ vwError' = veo'.error]_vars
    /\ [][lcw' # lcw /\ lcw'.error = "RemoteError" => ~lcw'.isLoading]_vars
    /\ [](/\ ~img.isLoading => ImageActionAvailable(img)
          /\ ~vwIsLoading => VideoActionAvailable
          /\ ~lcw.isLoading /\ lcw.chat => ChatInputEnabled(lcw))

\* C16: in each of the image, video and chat views at most one remote request
\* started by the view is in flight: while one is, the view on screen has its
\* submit controls disabled, so that a submit event starts no second request.
C16_OneRequestPerView ==
    /\ call.pc = "await" /\ ImageMounted =>
          ~GenerateEnabled(img) /\ ~EditEnabled(img)
    /\ Running /\ VideoMounted => ~SubmitEnabled
    /\ lcw.pc # "idle" /\ ChatMounted => ~SendEnabled(lcw)

\* C17: no failed remote call is retried automatically.  Within one invocation
\* the image-generation call, the edit call, the video submission and the
\* download fetch are each issued at most once; a failure of any of them ends
\* the invocation with the error in the hands of the calling view, and after it
\* the invocation issues nothing more (only a new submit of the user does); the
\* status fetch alone is issued repeatedly.
C17_NoAutomaticRetry ==
    /\ [](/\ call.nRemote <= 1 /\ veo.nSubmit <= 1 /\ veo.nDownload <= 1
          /\ call.remote \in {"network", "unauthorized"} =>
                call.pc = "settled" /\ call.error = "RemoteError"
          /\ veo.pc = "failed" => hpc = "idle" /\ veo.result = Null)
    /\ [][call' # call /\ call'.error # "none" =>
             img'.pc = "idle" /\ img'.error = call'.error /\ ~img'.isLoading]_vars
    /\ [][veo' # veo /\ veo'.pc = "failed" =>
             hpc' = "idle" /\ vwError' = veo'.error /\ ~vwIsLoading']_vars
    /\ [][call.pc = "settled" /\ call' # call => HandleGenerate \/ HandleEdit]_vars
    /\ [][veo.pc = "failed" /\ veo' # veo => HandleSubmit \/ FileToBase64Settles]_vars

C17_Witness ==
    /\ veo.pc = "failed" /\ veo.error = "DownloadFailed" /\ vwError = "DownloadFailed"
    /\ veo.nSubmit = 1 /\ veo.nStatus = 3 /\ veo.nDownload = 1

\* A step of one of the client calls: validateApiKey (from the setup screen's
\* timer to its return), generateImage, editImage, generateVideoWithVeo.
ClientCallStep ==
    \/ call' # call
    \/ veo' # veo
    \/ DebounceFires
    \/ ValidationSettles

\* C18: the client calls never write the stored credential (nor the stored
\* accent colour and background): every step of validateApiKey, generateImage,
\* editImage and generateVideoWithVeo, successful or failed, leaves them as
\* they were.
C18_StoredCredentialFrame ==
    [][ClientCallStep =>
          /\ storedKey' = storedKey
          /\ storedAccent' = storedAccent
          /\ storedBackground' = storedBackground]_vars

C18_Witness ==
    /\ SettledCall("generateImage") /\ call.remote = "unauthorized"
    /\ call.apiKey = KeyBad /\ storedKey = KeyBad /\ img.error = "RemoteError"

\* The invocation is in its poll loop (part_000 lines 118-123).
Polling(v) == v.pc \in {"sleep", "poll"}

\* A step of the user outside the running request: a change of mode, the
\* clearing of the key and what the setup screen then offers, a change of the
\* form's inputs.
UserAction ==
    \/ SetMode
    \/ ClearApiKey
    \/ StartGenerating
    \/ CloseSetup
    \/ SetPrompt
    \/ HandleFileChange
    \/ RemoveImage

\* C19: cancellation is not implemented.  While generateVideoWithVeo is in its
\* poll loop no action of the user (a change of mode, the clearing of the key,
\* a change or removal of the form's inputs) changes the invocation, and the
\* invocation leaves the loop only with a completed operation or with the error
\* of a remote call.
C19_NoCancellation ==
    /\ [][Polling(veo) /\ UserAction => veo' = veo]_vars
    /\ [][Polling(veo) /\ ~Polling(veo') =>
             \/ Done(veo')
             \/ veo'.pc = "failed" /\ veo'.error = "RemoteError"]_vars

C19_Witness ==
    /\ detached /\ veo.pc = "poll" /\ veo.nStatus = 2
    /\ Falsy(appApiKey) /\ Falsy(storedKey) /\ previousApiKey = KeyGood

\* C20: in ApiKeySetup, whenever "Start Generating" is enabled the trimmed
\* input is a key for which validateApiKey has returned true.
C20_EnabledMeansValidated ==
    setup.validationStatus = "valid" => Trim(setup.keyInput) \in setup.validated

\* C21: in ApiKeySetup every change of the key input cancels the pending
\* debounce timer: at most one timer is pending, and it belongs to the current
\* (non-blank) input; a step puts no key under validation but the trimmed
\* current input; a change to a blank input leaves no timer and sets 'idle'.
C21_DebounceLatestOnly ==
    /\ [](/\ Len(setup.timer) <= 1
          /\ setup.timer # <<>> =>
                setup.timer[1] = setup.keyInput /\ ~Falsy(Trim(setup.keyInput)))
    /\ [][setup'.inFlight \subseteq setup.inFlight \cup {Trim(setup.keyInput)}]_vars
    /\ [][setup'.keyInput # setup.keyInput /\ Falsy(Trim(setup'.keyInput)) =>
             setup'.timer = <<>> /\ setup'.validationStatus = "idle"]_vars

C21_Witness ==
    /\ setup.keyInput = KeyPadded /\ setup.timer = <<>>
    /\ setup.inFlight = {KeyGood} /\ setup.validationStatus = "validating"

\* The message list as it was when the running handleSubmit was called: the
\* handler has since appended the user's message and, once the stream is
\* there, the answer.
BeforeSubmit(v) ==
    SubSeq(v.messages, 1, Len(v.messages) - (IF v.pc = "send" THEN 1 ELSE 2))

\* A step in which the running handleSubmit of the chat ends in its catch block.
ChatFails == lcw.pc # "idle" /\ lcw'.pc = "idle" /\ lcw'.error = "RemoteError"

\* C22: in LiveChatWidget a failed send, the call or the stream, leaves the
\* message list as it was before the submit, the greeting first.
C22_FailedSendRestoresList ==
    [][ChatFails =>
          /\ lcw'.messages = BeforeSubmit(lcw)
          /\ lcw'.messages # <<>> /\ lcw'.messages[1] = Greeting]_vars

\* A step in which the call fn of the image view ends with an error.
ImageCallFails(fn) ==
    call' # call /\ call'.fn = fn /\ call'.pc = "settled" /\ call'.error # "none"

\* C23: in ImageGenerator a failed edit keeps the image and the edit prompt,
\* clears the "before" image, sets the message and resets the loading flag; a
\* failed generate leaves no image, sets the message and resets the flag.
C23_FailureLeavesView ==
    /\ [][ImageCallFails("editImage") =>
             /\ img'.imageUrl = img.imageUrl
             /\ img'.originalImageUrlForEdit = Null
             /\ img'.editPrompt = img.editPrompt
             /\ img'.error = call'.error /\ ~img'.isLoading]_vars
    /\ [][ImageCallFails("generateImage") =>
             /\ img'.imageUrl = Null
             /\ img'.error = call'.error /\ ~img'.isLoading]_vars

\* The image shown is the result of the view's last request.
ShowsResult ==
    /\ ~img.isLoading /\ call.pc = "settled" /\ call.error = "none"
    /\ img.imageUrl = call.result

\* C28: a file read that completes while a request of the image view is in
\* flight does not change imageUrl, and one that completes after the request
\* has succeeded does not replace the request's result.
C28_UploadLeavesRequestAlone ==
    /\ [][img.isLoading /\ ReaderLoads => img'.imageUrl = img.imageUrl]_vars
    /\ [][ShowsResult /\ ReaderLoads => img'.imageUrl = img.imageUrl]_vars

\* C24: handleGenerate calls generateImage with the prompt the user entered
\* (the watermark instruction appended when the toggle is on) and the selected
\* aspect ratio; handleEdit calls editImage with the edit prompt and the image
\* on display.
C24_HandlersPassInputs ==
    /\ [][HandleGenerate /\ call' # call =>
             call'.args = [prompt |-> FinalImagePrompt(img),
                           aspectRatio |-> img.aspectRatio]]_vars
    /\ [][HandleEdit /\ call' # call =>
             call'.args = [prompt |-> FinalEditPrompt(img),
                           imageDataUrl |-> img.imageUrl]]_vars

\* A chat view v has the credential k and a session to send with.
ChatReady(v, k) ==
    /\ v.apiKey = k
    /\ v.chat /\ v.messages # <<>> /\ v.error # "ApiKeyNotFound"
    /\ ChatInputEnabled(v)

\* C25: whenever App holds a credential and shows the live chat widget or the
\* Chat view, that view has received the credential and its session is
\* initialised: chat is there, the greeting shows, there is no 'API Key not
\* found' message, and the input takes text.
C25_ChatViewsGetCredential ==
    /\ ChatMounted => ChatReady(lcw, appApiKey)
    /\ ChatViewMounted => ChatReady(cc, appApiKey)

\* C26 as stated: in every state of App the stored credential equals apiKey
\* (absent exactly when apiKey is null), and previousApiKey is non-null only
\* while apiKey is null.
C26_Original ==
    /\ storedKey = appApiKey
    /\ previousApiKey # Null => appApiKey = Null

\* C26: in every state of App the stored credential equals apiKey, or nothing
\* is stored and apiKey is the key of the environment that App started with;
\* previousApiKey is non-null only while apiKey is null.
C26_StoredFollowsApiKey ==
    /\ \/ storedKey = appApiKey
       \/ storedKey = Null /\ appApiKey = envKey
    /\ previousApiKey # Null => appApiKey = Null

C26_Witness ==
    /\ envKey = KeyGood /\ previousApiKey = KeyGood
    /\ appApiKey = Null /\ storedKey = Null

\* C27: a clear keeps the cleared key as previousApiKey, which stays until a
\* submit or a cancel; the cancel that follows makes apiKey and the stored
\* credential that key again and previousApiKey null.
C27_ClearThenCancel ==
    /\ [][ClearApiKey => previousApiKey' = appApiKey /\ ~Falsy(previousApiKey')]_vars
    /\ [][previousApiKey' # previousApiKey /\ ~ClearApiKey =>
             (StartGenerating \/ CloseSetup) /\ previousApiKey' = Null]_vars
    /\ [][CloseSetup =>
             /\ appApiKey' = previousApiKey /\ storedKey' = previousApiKey
             /\ previousApiKey' = Null]_vars

C27_Witness ==
    /\ envKey = KeyGood /\ storedKey = KeyGood /\ appApiKey = KeyGood
    /\ previousApiKey = Null /\ mode = "IMAGE"

\* The texts of the chunks, one after the other; a chunk without text has none.
RECURSIVE ChunksText(_)
ChunksText(chunks) ==
    IF chunks = <<>> THEN <<>>
    ELSE (IF Head(chunks) = Null THEN <<>> ELSE Head(chunks)) \o ChunksText(Tail(chunks))

\* A step in which the stream of view v ends without error, w being v after it.
SendEnds(v, w) == v.pc = "stream" /\ w.pc = "idle" /\ w.error = "none"

\* w holds the list before the submit, the user's message and one answer made
\* of the chunks in the order they came; the input is empty, loading is over.
SendAnswered(v, w) ==
    /\ w.messages = BeforeSubmit(v) \o
                       << [role |-> "user", text |-> v.currentInput],
                          [role |-> "model", text |-> ChunksText(v.chunks)] >>
    /\ w.input = <<>> /\ ~w.isLoading

\* C29: in both chat views, when the stream of a send ends without error the
\* list is the list before the submit, the user's message and one model
\* message whose text is the chunks' texts in arrival order; the input is
\* empty and the loading flag false.
C29_StreamedAnswer ==
    [][/\ SendEnds(lcw, lcw') => SendAnswered(lcw, lcw')
       /\ SendEnds(cc, cc') => SendAnswered(cc, cc')]_vars


====
